---- MODULE Spec2Model ----
(***************************************************************************)
(* bcsync: upload-and-deduplicate pipeline with session reporting.        *)
(*                                                                         *)
(* Text is modelled as a sequence of tokens: a token is a run of           *)
(* non-blank characters ("a", ".replay") or one blank character (" ",      *)
(* "\n").  A file is its content, a flat token sequence, so that the       *)
(* stripping done on write (rstrip) and on read (strip) is computed, not   *)
(* assumed.  A path is a sequence of components, each one a text.          *)
(* Presentation calls (print, print_header, print_body) are modelled as    *)
(* entries of the screen; the terminal itself is outside the model.        *)
(***************************************************************************)
EXTENDS Integers, Sequences, FiniteSets, TLC

\* ---------------------------------------------------------------- bounds
MaxTicks == 2
MaxHealthFails == 2
MaxContent == 5
MaxPasses == 2
MaxPersists == 12
MaxAttempts == 4
MaxString == 5
MaxLength == 7

\* ------------------------------------------------------- program constants
HealthRetrySeconds == 30
StatusOK == 200
StatusCreated == 201
StatusConflict == 409
max_session_logfiles == 10

\* ------------------------------------------------------------------ state
VARIABLES
    pc,               \* position of main(): health, sleep30, discover, check, upload,
                      \* compact, sleep; checked (returned from the check-only
                      \* branch), done (returned after the loop), raised
    tick,             \* number of the current pass of the while loop
    watch,            \* Config.watch
    check,            \* args.check
    dupFile,          \* the file Config.duplicates_file
    known_duplicates, \* Replay.known_duplicates (class attribute)
    replays,          \* the list replays of main()
    idx,              \* position of the for loop over replays
    run_result,       \* run_result of main()
    session_data,     \* Session.session_data
    screen,           \* what was printed since the last clear_lines()
    healthLog,        \* failed checks, waits and seconds waited since the last
                      \* discovery, and the outcome of the last check
    tickLog,          \* discoveries, submits, absorbs and compactions of this tick
    recorded,         \* basenames appended to the duplicates file after an upload
    recordedBefore,   \* recorded, as it was when this tick's entities were built
    prev,             \* the entities of the previous tick, as it left them
    probe,            \* input and result of a function applied on its own
    log,              \* the directory log of Config.working_directory
    error,            \* the exception that left main(), "" when there is none
    startStore        \* the basenames in the duplicates file when the process started

vars == <<pc, tick, watch, check, dupFile, known_duplicates, replays, idx, run_result,
          session_data, screen, healthLog, tickLog, recorded, recordedBefore, prev, probe,
          log, error, startStore>>

\* ------------------------------------------------------------------- text
NL == "\n"
IsSpace(c) == c \in {" ", NL}

RECURSIVE lstrip(_)
lstrip(s) ==
    IF s = <<>> THEN s
    ELSE IF IsSpace(Head(s)) THEN lstrip(Tail(s)) ELSE s

RECURSIVE rstrip(_)
rstrip(s) ==
    IF s = <<>> THEN s
    ELSE IF IsSpace(s[Len(s)]) THEN rstrip(SubSeq(s, 1, Len(s) - 1)) ELSE s

strip(s) == lstrip(rstrip(s))

\* index of the first line break of a non-empty text, or its length
RECURSIVE LineEnd(_, _)
LineEnd(s, i) ==
    IF i >= Len(s) THEN Len(s)
    ELSE IF s[i] = NL THEN i ELSE LineEnd(s, i + 1)

\* file.readlines(): the lines, each with its line break when it has one
RECURSIVE readlines(_)
readlines(content) ==
    IF content = <<>> THEN <<>>
    ELSE LET k == LineEnd(content, 1)
         IN  <<SubSeq(content, 1, k)>> \o readlines(SubSeq(content, k + 1, Len(content)))

SeqToSet(s) == {s[i] : i \in 1..Len(s)}

RECURSIVE SelectStripped(_)
SelectStripped(lines) ==
    IF lines = <<>> THEN <<>>
    ELSE IF Head(lines) # <<NL>>
         THEN <<strip(Head(lines))>> \o SelectStripped(Tail(lines))
         ELSE SelectStripped(Tail(lines))

\* os.path.basename: the final component of the path
basename_of(path) == path[Len(path)]

\* ------------------------------------------------------------------ files
NoFile == [exists |-> FALSE, content |-> <<>>]
FileOf(content) == [exists |-> TRUE, content |-> content]

\* read_file_lines: the raw lines, or none when the file does not exist
read_file_lines(file) == IF file.exists THEN readlines(file.content) ELSE <<>>

\* overwrite_to_file: open(filepath, "w"); write(text.rstrip() + "\n")
overwrite_to_file(file, text) == FileOf(rstrip(text) \o <<NL>>)

\* a bug: append_to_file opens the file with "w"
append_to_file_truncates(file, text) == FileOf(rstrip(text) \o <<NL>>)

\* append_to_file: open(filepath, "a"); write(text.rstrip() + "\n")
append_to_file(file, text) == FileOf(file.content \o rstrip(text) \o <<NL>>)

\* the basenames a reader of the duplicates file finds in it
StoreBasenames(file) == SeqToSet(SelectStripped(read_file_lines(file)))

\* ---------------------------------------------------------- Upload Client
\* health_check: healthy only on an explicit 200
health_check(status_code) == status_code = StatusOK

DefaultJson == [error |-> "Something was not handled and result passed through unmutated"]

\* a bug: the 409 branch is missing
upload_replay_no_conflict(upload) ==
    LET result == [status_code |-> upload.status_code, json |-> DefaultJson,
                   id |-> "", result |-> "fail"]
    IN  IF upload.status_code = StatusCreated
        THEN [result EXCEPT !.json = upload.json, !.result = "success",
                            !.id = upload.json.id]
        ELSE result

\* upload_replay: the classification of the response of the one POST
upload_replay(upload) ==
    LET result == [status_code |-> upload.status_code, json |-> DefaultJson,
                   id |-> "", result |-> "fail"]
    IN  IF upload.status_code = StatusCreated
        THEN [result EXCEPT !.json = upload.json, !.result = "success",
                            !.id = upload.json.id]
        ELSE IF upload.status_code = StatusConflict
        THEN [result EXCEPT !.json = upload.json, !.result = "duplicate",
                            !.id = upload.json.id]
        ELSE result

\* ---------------------------------------------------------- Replay Entity
\* Replay.read_known_duplicates: the stripped non-blank lines; the class
\* attribute is replaced only when the file could be opened
read_known_duplicates(file, cls_known) ==
    IF file.exists
    THEN LET duplicates == SelectStripped(readlines(file.content))
         IN  [ret |-> duplicates, cls |-> duplicates]
    ELSE [ret |-> <<>>, cls |-> cls_known]

\* a bug: the entity starts with the outcome fail
ReplayStartsFailed(path, file, cls_known) ==
    LET rd == read_known_duplicates(file, cls_known)
    IN  [path |-> path,
         basename |-> basename_of(path),
         duplicate |-> basename_of(path) \in SeqToSet(rd.cls),
         visibility |-> "private",
         ballchasing_id |-> "",
         upload_result |-> "fail",
         upload_json |-> <<>>,
         found |-> file.exists,
         read |-> rd.ret,
         opened |-> "",
         calls |-> 0,
         appends |-> 0,
         returned |-> "",
         status_code |-> 0,
         stored |-> FALSE]

\* Replay.__init__; the fields found, read, opened, calls, appends, returned,
\* status_code and stored record what happened to the entity and are not fields
\* of the class
Replay(path, file, cls_known) ==
    LET rd == read_known_duplicates(file, cls_known)
    IN  [path |-> path,
         basename |-> basename_of(path),
         duplicate |-> basename_of(path) \in SeqToSet(rd.cls),
         visibility |-> "private",
         ballchasing_id |-> "",
         upload_result |-> "",
         upload_json |-> <<>>,
         found |-> file.exists,
         read |-> rd.ret,
         opened |-> "",
         calls |-> 0,
         appends |-> 0,
         returned |-> "",
         status_code |-> 0,
         stored |-> FALSE]

WebUrl == <<"https://ballchasing.com">>

\* Replay.upload, after the file was opened and the response received
ReplayData(replay, upload_result) ==
    LET url == WebUrl \o <<"/replay/", upload_result.id>>
    IN  [result |-> upload_result.result,
         id |-> upload_result.id,
         basename |-> replay.basename,
         url |-> url,
         watch_url |-> url \o <<"#watch">>]

\* a bug: the duplicate test of Replay.upload is missing
SkipsUploadNever(replay) == FALSE

\* a bug: Replay.upload looks the basename up in the file again
SkipsUploadReread(replay) == replay.basename \in StoreBasenames(dupFile)

\* Replay.upload: a known duplicate makes no request
SkipsUpload(replay) == replay.duplicate

\* --------------------------------------------------------------- Session
SessionInit ==
    [total_replays |-> 0, total_duplicates |-> 0, old_duplicates |-> 0,
     new_uploads |-> 0, new_duplicates |-> 0, run_results |-> <<>>]

\* len([r for r in replays if r.upload_result == result])
CountResult(rs, result) == Cardinality({i \in DOMAIN rs : rs[i].upload_result = result})

\* len([r for r in replays if r.upload_result == "" and r.duplicate is True])
CountSkipped(rs) ==
    Cardinality({i \in DOMAIN rs : rs[i].upload_result = "" /\ rs[i].duplicate = TRUE})

\* a bug: the totals are computed before the counters are updated
update_session_statistics_stale_totals(sd, rs, rr) ==
    LET nu == sd.new_uploads + CountResult(rs, "success")
        od == CountSkipped(rs)
        nd == sd.new_duplicates + CountResult(rs, "duplicate")
        td == sd.old_duplicates + sd.new_duplicates
    IN  [total_replays |-> td + sd.new_uploads,
         total_duplicates |-> td,
         old_duplicates |-> od,
         new_uploads |-> nu,
         new_duplicates |-> nd,
         run_results |-> IF Len(rr.replaydatas) > 0
                         THEN Append(sd.run_results, rr)
                         ELSE sd.run_results]

\* a bug: old_duplicates is added to, like the other two counters
update_session_statistics_sums_old(sd, rs, rr) ==
    LET nu == sd.new_uploads + CountResult(rs, "success")
        od == sd.old_duplicates + CountSkipped(rs)
        nd == sd.new_duplicates + CountResult(rs, "duplicate")
    IN  [total_replays |-> od + nd + nu,
         total_duplicates |-> od + nd,
         old_duplicates |-> od,
         new_uploads |-> nu,
         new_duplicates |-> nd,
         run_results |-> IF Len(rr.replaydatas) > 0
                         THEN Append(sd.run_results, rr)
                         ELSE sd.run_results]

\* a bug: the run result is appended without the test of its length
update_session_statistics_appends_always(sd, rs, rr) ==
    LET nu == sd.new_uploads + CountResult(rs, "success")
        od == CountSkipped(rs)
        nd == sd.new_duplicates + CountResult(rs, "duplicate")
    IN  [total_replays |-> od + nd + nu,
         total_duplicates |-> od + nd,
         old_duplicates |-> od,
         new_uploads |-> nu,
         new_duplicates |-> nd,
         run_results |-> Append(sd.run_results, rr)]

\* Session.update_session_statistics
update_session_statistics(sd, rs, rr) ==
    LET nu == sd.new_uploads + CountResult(rs, "success")
        od == CountSkipped(rs)
        nd == sd.new_duplicates + CountResult(rs, "duplicate")
    IN  [total_replays |-> od + nd + nu,
         total_duplicates |-> od + nd,
         old_duplicates |-> od,
         new_uploads |-> nu,
         new_duplicates |-> nd,
         run_results |-> IF Len(rr.replaydatas) > 0
                         THEN Append(sd.run_results, rr)
                         ELSE sd.run_results]

\* -------------------------------------------------------- Duplicate Store
\* every ordering of a finite set: list(set) has no specified order
Orderings(S) ==
    {f \in [1..Cardinality(S) -> S] : \A i, j \in 1..Cardinality(S) : f[i] = f[j] => i = j}

RECURSIVE AppendAll(_, _)
AppendAll(file, texts) ==
    IF texts = <<>> THEN file
    ELSE AppendAll(append_to_file(file, Head(texts)), Tail(texts))

\* a bug: the loop over uniques_list[1:] is missing
RewriteUniqueFirstOnly(file, uniques_list) == overwrite_to_file(file, uniques_list[1])

\* remove_duplicate_lines_from_file for one ordering of the unique lines
RewriteUnique(file, uniques_list) ==
    AppendAll(overwrite_to_file(file, uniques_list[1]), Tail(uniques_list))

\* total_bytes_written: what the writes returned, one for each token written
RECURSIVE WrittenBytes(_)
WrittenBytes(texts) ==
    IF texts = <<>> THEN 0
    ELSE Len(rstrip(Head(texts))) + 1 + WrittenBytes(Tail(texts))

\* remove_duplicate_lines_from_file: every outcome of one call; an absent file
\* is left alone, and uniques_list[0] raises IndexError on a file without lines;
\* bytes is the value returned, when the call returns
remove_duplicate_lines_from_file(file) ==
    IF ~file.exists
    THEN {[raised |-> FALSE, file |-> file, bytes |-> 0]}
    ELSE LET uniques == SeqToSet(read_file_lines(file))
         IN  IF uniques = {}
             THEN {[raised |-> TRUE, file |-> file, bytes |-> 0]}
             ELSE {[raised |-> FALSE, file |-> RewriteUnique(file, uniques_list),
                    bytes |-> WrittenBytes(uniques_list)] :
                      uniques_list \in Orderings(uniques)}

\* remove_duplicate_lines_from_file when a write fails: open(filepath, "w")
\* raises and the file is as it was, or it was truncated and write() raises,
\* or one of the appends raises and the file holds the lines written before
\* it; a file that is absent or has no lines is not written
RewriteFailures(file) ==
    IF file.exists /\ read_file_lines(file) # <<>>
    THEN {[raised |-> TRUE, file |-> file, bytes |-> 0],
          [raised |-> TRUE, file |-> FileOf(<<>>), bytes |-> 0]}
         \cup {[raised |-> TRUE, file |-> RewriteUnique(file, SubSeq(uniques_list, 1, k)),
                bytes |-> 0] :
                  uniques_list \in Orderings(SeqToSet(read_file_lines(file))),
                  k \in 1..(Cardinality(SeqToSet(read_file_lines(file))) - 1)}
    ELSE remove_duplicate_lines_from_file(file)

\* ------------------------------------------------------------ Log Rotator
\* str(index) and int(line): decimal digits, one token each
Digits == <<"0", "1", "2", "3", "4", "5", "6", "7", "8", "9">>

RECURSIVE str(_)
str(n) == IF n < 10 THEN <<Digits[n + 1]>> ELSE str(n \div 10) \o <<Digits[(n % 10) + 1]>>

IsInt(text) ==
    /\ strip(text) # <<>>
    /\ \A i \in DOMAIN strip(text) : \E d \in DOMAIN Digits : Digits[d] = strip(text)[i]

DigitValue(token) == (CHOOSE d \in DOMAIN Digits : Digits[d] = token) - 1

RECURSIVE IntOfDigits(_)
IntOfDigits(ds) ==
    IF ds = <<>> THEN 0
    ELSE 10 * IntOfDigits(SubSeq(ds, 1, Len(ds) - 1)) + DigitValue(ds[Len(ds)])

\* int() ignores the blanks and the line break around the digits
int(text) == IntOfDigits(strip(text))

\* f.readline(): the first line with its line break, "" at the end of the file
readline(content) ==
    IF content = <<>> THEN <<>> ELSE SubSeq(content, 1, LineEnd(content, 1))

\* the directory log: whether it exists, the file <identifier>.rotate, and the
\* log files by name
FreshLog == [dir |-> FALSE, rotate |-> NoFile, files |-> [n \in {} |-> NoFile]]

session_log_file_identifier == <<"session">>

\* Printer.log: the text printed so far
PrinterLog == <<"Printer.log">>

\* read_rotate_file: open() raises when the file is absent, int() when the
\* line is not a number
read_rotate_file(lg) ==
    IF ~lg.rotate.exists THEN [raised |-> "FileNotFoundError", value |-> 0]
    ELSE IF ~IsInt(readline(lg.rotate.content)) THEN [raised |-> "ValueError", value |-> 0]
    ELSE [raised |-> "", value |-> int(readline(lg.rotate.content))]

\* get_next_rotate_index: the index after the stored one, 0 without a file
get_next_rotate_index(lg) ==
    LET r == read_rotate_file(lg)
    IN  IF r.raised = "" THEN [raised |-> "", value |-> r.value + 1]
        ELSE IF r.raised = "FileNotFoundError" THEN [raised |-> "", value |-> 0]
        ELSE r

\* write_rotate_file: overwrite_to_file(rotate_file, str(index))
write_rotate_file(lg, index) ==
    [lg EXCEPT !.dir = TRUE, !.rotate = overwrite_to_file(lg.rotate, str(index))]

\* a bug: the index is never reset
WrapIndexNever(next_index) == next_index

\* a bug: the index is reset when it reaches the maximum
WrapIndexEarly(next_index) == IF next_index >= max_session_logfiles THEN 0 ELSE next_index

\* write_rotated_log, lines 152-153
WrapIndex(next_index) == IF next_index > max_session_logfiles THEN 0 ELSE next_index

\* write_rotated_log, lines 155-157: the first log has no suffix
LogName(identifier, next_index) ==
    identifier \o <<".log">> \o (IF next_index > 0 THEN str(next_index) ELSE <<>>)

\* write_rotated_log: the directory after the call, the index and the name
\* used, and what the call raised; overwrite_to_file creates the directory
write_rotated_log(lg, identifier, text) ==
    LET next == get_next_rotate_index(lg)
        next_index == WrapIndex(next.value)
        log_file == LogName(identifier, next_index)
        written == [lg EXCEPT
                      !.dir = TRUE,
                      !.files = [n \in DOMAIN lg.files \cup {log_file} |->
                                    IF n = log_file
                                    THEN overwrite_to_file(NoFile, text)
                                    ELSE lg.files[n]]]
    IN  IF next.raised # ""
        THEN [raised |-> next.raised, log |-> lg, index |-> 0, name |-> <<>>]
        ELSE [raised |-> "", log |-> write_rotate_file(written, next_index),
              index |-> next_index, name |-> log_file]

\* a bug: the index is stored before the log file is written
write_rotated_log_index_first(lg, identifier, text) ==
    LET next == get_next_rotate_index(lg)
        next_index == WrapIndex(next.value)
        log_file == LogName(identifier, next_index)
    IN  IF next.raised # ""
        THEN {[raised |-> next.raised, log |-> lg, index |-> 0, name |-> <<>>]}
        ELSE {[raised |-> "OSError", log |-> write_rotate_file(lg, next_index),
               index |-> next_index, name |-> log_file]}

\* write_rotated_log when the write of the log file fails: makedirs raises,
\* or open(filepath, "w") raises, or the file was truncated and write()
\* raises; write_rotate_file is not reached
write_rotated_log_failing(lg, identifier, text) ==
    LET next == get_next_rotate_index(lg)
        next_index == WrapIndex(next.value)
        log_file == LogName(identifier, next_index)
        made == [lg EXCEPT !.dir = TRUE]
        truncated == [made EXCEPT
                        !.files = [n \in DOMAIN lg.files \cup {log_file} |->
                                      IF n = log_file THEN FileOf(<<>>) ELSE lg.files[n]]]
    IN  IF next.raised # ""
        THEN {[raised |-> next.raised, log |-> lg, index |-> 0, name |-> <<>>]}
        ELSE {[raised |-> "OSError", log |-> l, index |-> next_index, name |-> log_file] :
                 l \in {lg, made, truncated}}

\* ------------------------------------------------------------ environment
A == <<"a", ".replay">>
SpA == <<" ", "a", ".replay">>
D1 == <<"d1">>
D2 == <<"d2">>

\* the replay files that can exist under Config.replay_path, in the order the
\* directory walk yields them
AllPaths == << <<D1, A>>, <<D2, A>>, <<D1, SpA>> >>

RECURSIVE Pick(_, _, _)
Pick(seq, S, i) ==
    IF i > Len(seq) THEN <<>>
    ELSE (IF i \in S THEN <<seq[i]>> ELSE <<>>) \o Pick(seq, S, i + 1)

\* find_files_endswith: the files present at the time of the call
Discoverable == {Pick(AllPaths, S, 1) : S \in SUBSET (1..Len(AllPaths))}

\* the answers of the remote service to the upload request
Created == [status_code |-> StatusCreated, json |-> [id |-> "abc123", location |-> "l1"]]
Conflict == [status_code |-> StatusConflict, json |-> [id |-> "xyz789", location |-> "l2"]]
ServerError == [status_code |-> 500, json |-> [error |-> "internal"]]
Responses == {Created, Conflict, ServerError}

\* the outcomes of the GET of the health check: a status, or an exception
HealthOutcomes == {"200", "503", "ConnectionError", "ReadTimeout"}
HealthStatus(o) == IF o = "200" THEN StatusOK ELSE 503
Raises(o) == o \in {"ConnectionError", "ReadTimeout"}

WatchValues == {0, 60}

NoLog == [fails |-> 0, waits |-> 0, seconds |-> 0, last |-> ""]
NoTick == [discoveries |-> 0, submits |-> 0, appends |-> 0, absorbs |-> 0,
           compactions |-> 0, slept |-> 0]

\* the duplicates file left by earlier runs of the program
InitStores == {NoFile, FileOf(A \o <<NL>>)}

NoProbe == [phase |-> "none"]

\* an exception that leaves main(): its class, and the call that raised it
NoError == [type |-> "", at |-> ""]
Raised(type, at) == [type |-> type, at |-> at]

\* the outcomes of a write to the disk
IOOutcomes == {"ok", "OSError"}

\* ------------------------------------------------------------------- Init
Init ==
    /\ pc = "health"
    /\ tick = 1
    /\ watch \in WatchValues
    /\ check \in BOOLEAN
    /\ dupFile \in InitStores
    /\ known_duplicates = <<>>
    /\ replays = <<>>
    /\ idx = 1
    /\ run_result = [timestamp |-> 0, replaydatas |-> <<>>]
    /\ session_data = SessionInit
    /\ screen = <<>>
    /\ healthLog = NoLog
    /\ tickLog = NoTick
    /\ recorded = SeqToSet([i \in 1..Len(read_file_lines(dupFile)) |->
                               rstrip(read_file_lines(dupFile)[i])])
    /\ recordedBefore = recorded
    /\ prev = <<>>
    /\ probe = NoProbe
    /\ log = FreshLog
    /\ error = NoError
    /\ startStore = StoreBasenames(dupFile)

\* ----------------------------------------------------------------- actions
\* one call of print: what kind of text, and about which file
Out(kind, path) == [kind |-> kind, path |-> path]

\* main(), lines 267-277: clear_lines, the health check and its finally block.
\* `continue` in the finally block discards whatever the check raised.
Healthy(o) == ~Raises(o) /\ health_check(HealthStatus(o))

\* a bug: the finally block reports the failure and goes on without
\* sleep and continue
AfterHealthCheckGoesOn(o) == "discover"

\* a bug: no except clause and no continue in the finally block; what the
\* check raises leaves main()
AfterHealthCheckRaises(o) ==
    IF Raises(o) THEN "raised"
    ELSE IF health_check(HealthStatus(o)) = FALSE THEN "sleep30" ELSE "discover"

AfterHealthCheck(o) ==
    LET health == IF Raises(o) THEN FALSE ELSE health_check(HealthStatus(o))
    IN  IF health = FALSE THEN "sleep30" ELSE "discover"

HealthCheck ==
    /\ pc = "health"
    /\ \E o \in HealthOutcomes :
        /\ ~Healthy(o) => healthLog.fails < MaxHealthFails
        /\ healthLog' = IF Healthy(o) THEN [healthLog EXCEPT !.last = o]
                        ELSE [healthLog EXCEPT !.fails = @ + 1, !.last = o]
        /\ pc' = AfterHealthCheck(o)
        /\ screen' = IF pc' = "sleep30" THEN <<Out("health_failed", <<>>)>> ELSE <<>>
    /\ UNCHANGED <<tick, watch, check, dupFile, known_duplicates, replays, idx, run_result,
                   session_data, tickLog, recorded, recordedBefore, prev, probe,
                   log, error, startStore>>

\* main(), lines 276-277: time.sleep(30); continue
Sleep30 ==
    /\ pc = "sleep30"
    /\ healthLog' = [healthLog EXCEPT !.waits = @ + 1, !.seconds = @ + HealthRetrySeconds]
    /\ pc' = "health"
    /\ UNCHANGED <<tick, watch, check, dupFile, known_duplicates, replays, idx, run_result,
                   session_data, screen, tickLog, recorded, recordedBefore, prev, probe,
                   log, error, startStore>>

\* main(), lines 280-289: one Replay per discovered file, and a fresh run_result;
\* the number of the tick stands for datetime.datetime.now()
BuildReplays(files, file, cls_known) ==
    [i \in 1..Len(files) |-> Replay(files[i], file, cls_known)]

Discover ==
    /\ pc = "discover"
    /\ \E files \in Discoverable :
        /\ replays' = BuildReplays(files, dupFile, known_duplicates)
        /\ known_duplicates' = IF files = <<>> THEN known_duplicates
                               ELSE read_known_duplicates(dupFile, known_duplicates).cls
    /\ prev' = replays
    /\ run_result' = [timestamp |-> tick, replaydatas |-> <<>>]
    /\ idx' = 1
    /\ healthLog' = NoLog
    /\ tickLog' = [tickLog EXCEPT !.discoveries = @ + 1]
    /\ recordedBefore' = recorded
    /\ pc' = "check"
    /\ UNCHANGED <<tick, watch, check, dupFile, session_data, screen, recorded, probe,
                   log, error, startStore>>

\* main(), lines 291-296: the check-only branch, which returns from inside its
\* loop, and otherwise the header of the run
ChecksOnly(checking, rs) == checking /\ rs # <<>>

CheckBranch ==
    /\ pc = "check"
    /\ IF ChecksOnly(check, replays)
       THEN /\ screen' = Append(screen, Out("attributes", replays[1].path))
            /\ pc' = "checked"
       ELSE /\ screen' = Append(screen, Out("header", <<>>))
            /\ pc' = "upload"
    /\ UNCHANGED <<tick, watch, check, dupFile, known_duplicates, replays, idx, run_result,
                   session_data, healthLog, tickLog, recorded, recordedBefore, prev, probe,
                   log, error, startStore>>

\* a bug: the loop stops after the first failed upload
LoopDoneOnFail(i, rs) ==
    i > Len(rs) \/ \E j \in 1..(i - 1) : j <= Len(rs) /\ rs[j].upload_result = "fail"

\* main(), line 297: the for loop ends when the list is exhausted
LoopDone(i, rs) == i > Len(rs)

\* a bug: every returned record is written, whatever its result
RecordsBasenameAlways(result) == TRUE

\* a bug: the basename is not written in the loop
RecordsBasenameNever(result) == FALSE

\* handle_replay, line 330: which results are written to the duplicates file
RecordsBasename(result) == result = "success" \/ result = "duplicate"

\* a bug: only the records of accepted uploads are kept
AppendReplayDataUnlessFail(replaydatas, rd) ==
    IF rd.result = "fail" THEN replaydatas ELSE Append(replaydatas, rd)

\* main(), lines 299-300: a returned record is appended to the run result
AppendReplayData(replaydatas, rd) == Append(replaydatas, rd)

\* a bug: the file is opened only after the request was made
OpenRaisesNever(readable) == FALSE

\* Replay.upload, line 52: open(self.path, "rb") is evaluated before the call
\* of ballchasing_api.upload_replay and raises when the file cannot be read
OpenRaises(readable) == ~readable

\* a bug: append_to_file catches every error of the write
PropagatesNever(io) == FALSE

\* append_to_file and overwrite_to_file: no error of open() or write() is
\* caught (FileNotFoundError of the append falls back to overwrite_to_file)
Propagates(io) == io = "OSError"

\* main(), lines 297-300: one pass of the upload loop: handle_replay,
\* upload_replay, Replay.upload and ballchasing_api.upload_replay
HandleReplay ==
    /\ pc = "upload"
    /\ ~LoopDone(idx, replays)
    /\ LET replay == replays[idx]
       IN  IF SkipsUpload(replay)
           THEN /\ replays' = [replays EXCEPT ![idx].returned = "null"]
                /\ idx' = idx + 1
                /\ pc' = pc
                /\ UNCHANGED <<dupFile, run_result, tickLog, recorded, error>>
           ELSE \E readable \in BOOLEAN :
                IF OpenRaises(readable)
                THEN \* open(self.path, "rb") raises
                     /\ pc' = "raised"
                     /\ error' = Raised("OSError", "open")
                     /\ replays' = [replays EXCEPT ![idx].returned = "raised",
                                                   ![idx].opened = "error"]
                     /\ UNCHANGED <<idx, dupFile, run_result, tickLog, recorded>>
                ELSE \E upload \in Responses, io \in IOOutcomes :
                     LET upload_result == upload_replay(upload)
                         done == [replay EXCEPT
                                    !.upload_json = upload_result.json,
                                    !.ballchasing_id = upload_result.id,
                                    !.upload_result = upload_result.result,
                                    !.opened = IF readable THEN "ok" ELSE "error",
                                    !.calls = @ + 1,
                                    !.status_code = upload_result.status_code,
                                    !.stored = replay.basename \in StoreBasenames(dupFile),
                                    !.returned = "record"]
                         rd == ReplayData(done, upload_result)
                         records == RecordsBasename(rd.result) /\ io = "ok"
                         raises == RecordsBasename(rd.result) /\ io # "ok" /\ Propagates(io)
                     IN  /\ dupFile' = IF records THEN append_to_file(dupFile, rd.basename)
                                       ELSE dupFile
                         /\ recorded' = IF records THEN recorded \cup {rd.basename}
                                        ELSE recorded
                         /\ replays' = [replays EXCEPT
                                          ![idx] = [done EXCEPT
                                                      !.appends = IF records THEN 1 ELSE 0,
                                                      !.returned = IF raises THEN "raised"
                                                                   ELSE "record"]]
                         /\ run_result' = IF raises THEN run_result
                                          ELSE [run_result EXCEPT
                                                  !.replaydatas = AppendReplayData(@, rd)]
                         /\ tickLog' = [tickLog EXCEPT
                                          !.submits = @ + 1,
                                          !.appends = IF records THEN @ + 1 ELSE @]
                         /\ idx' = IF raises THEN idx ELSE idx + 1
                         /\ pc' = IF raises THEN "raised" ELSE pc
                         /\ error' = IF raises THEN Raised("OSError", "append") ELSE error
    /\ UNCHANGED <<tick, watch, check, known_duplicates, session_data, screen, healthLog,
                   recordedBefore, prev, probe, log, startStore>>

\* main(), lines 302-304: the loop is over; statistics and the body of the report
Absorb ==
    /\ pc = "upload"
    /\ LoopDone(idx, replays)
    /\ session_data' = update_session_statistics(session_data, replays, run_result)
    /\ screen' = Append(screen, Out("body", <<>>))
    /\ tickLog' = [tickLog EXCEPT !.absorbs = @ + 1]
    /\ pc' = "compact"
    /\ UNCHANGED <<tick, watch, check, dupFile, known_duplicates, replays, idx, run_result,
                   healthLog, recorded, recordedBefore, prev, probe,
                   log, error, startStore>>

\* a bug: the test of the watch interval is missing
HaltsNever(w) == FALSE

\* main(), line 315: a watch of zero ends the loop
Halts(w) == w = 0

\* main(), lines 307-316: remove_duplicate_lines_from_file, then the watch test
Compact ==
    /\ pc = "compact"
    /\ tickLog' = [tickLog EXCEPT !.compactions = @ + 1]
    /\ \E io \in IOOutcomes :
        \E out \in IF io = "ok" THEN remove_duplicate_lines_from_file(dupFile)
                   ELSE RewriteFailures(dupFile) :
            /\ dupFile' = out.file
            /\ pc' = IF out.raised /\ (io = "ok" \/ Propagates(io)) THEN "raised"
                     ELSE IF Halts(watch) THEN "done" ELSE "sleep"
            /\ error' = IF pc' # "raised" THEN error
                        ELSE IF out \in remove_duplicate_lines_from_file(dupFile)
                        THEN Raised("IndexError", "compact")
                        ELSE Raised("OSError", "rewrite")
    /\ UNCHANGED <<tick, watch, check, known_duplicates, replays, idx, run_result,
                   session_data, screen, healthLog, recorded, recordedBefore, prev, probe,
                   log, startStore>>

\* main(), line 318: time.sleep(Config.watch), then the next pass
SleepWatch ==
    /\ pc = "sleep"
    /\ tick < MaxTicks
    /\ tick' = tick + 1
    /\ tickLog' = [NoTick EXCEPT !.slept = watch]
    /\ pc' = "health"
    /\ UNCHANGED <<watch, check, dupFile, known_duplicates, replays, idx, run_result,
                   session_data, screen, healthLog, recorded, recordedBefore, prev, probe,
                   log, error, startStore>>

\* a bug: main_wrapper updates the statistics before it writes the report
MainWrapperAbsorbs ==
    /\ pc \in {"raised", "interrupted"}
    /\ log' = write_rotated_log(log, session_log_file_identifier, PrinterLog).log
    /\ session_data' = update_session_statistics(session_data, replays, run_result)
    /\ tickLog' = [tickLog EXCEPT !.absorbs = @ + 1]
    /\ pc' = IF pc = "interrupted" THEN "exited" ELSE "failed"
    /\ UNCHANGED <<tick, watch, check, dupFile, known_duplicates, replays, idx, run_result,
                   screen, healthLog, recorded, recordedBefore, prev,
                   probe, error, startStore>>

\* a bug: the report is written at every end of main()
MainWrapperAlways ==
    /\ pc \in {"raised", "interrupted", "done", "checked", "usage", "version"}
    /\ log' = write_rotated_log(log, session_log_file_identifier, PrinterLog).log
    /\ pc' = IF pc = "raised" THEN "failed" ELSE "exited"
    /\ UNCHANGED <<tick, watch, check, dupFile, known_duplicates, replays, idx, run_result,
                   session_data, screen, healthLog, tickLog, recorded, recordedBefore, prev,
                   probe, error, startStore>>

\* main_wrapper: what main() raised is caught, the report is written to the
\* rotated log, and an Exception is raised again while a KeyboardInterrupt
\* ends in a return
MainWrapper ==
    /\ pc \in {"raised", "interrupted"}
    /\ log' = write_rotated_log(log, session_log_file_identifier, PrinterLog).log
    /\ pc' = IF pc = "interrupted" THEN "exited" ELSE "failed"
    /\ UNCHANGED <<tick, watch, check, dupFile, known_duplicates, replays, idx, run_result,
                   session_data, screen, healthLog, tickLog, recorded, recordedBefore, prev,
                   probe, error, startStore>>

Next ==
    \/ HealthCheck
    \/ Sleep30
    \/ Discover
    \/ CheckBranch
    \/ HandleReplay
    \/ Absorb
    \/ Compact
    \/ SleepWatch
    \/ MainWrapper

Spec == Init /\ [][Next]_vars

\* --------------------------------------------- upload_replay on its own
\* every status code of a response, with every kind of body; the service
\* answers 201 and 409 with a body that holds the id of the replay
StatusCodes == 100..599
Bodies == {[id |-> "abc123", location |-> "l1"], [id |-> "xyz789", location |-> "l2"],
           [error |-> "bad request"]}
Uploads ==
    {u \in [status_code : StatusCodes, json : Bodies] :
        u.status_code \in {StatusCreated, StatusConflict} => "id" \in DOMAIN u.json}

SubmitInit ==
    /\ pc = "submit"
    /\ tick = 1
    /\ watch = 0
    /\ check = FALSE
    /\ dupFile = NoFile
    /\ known_duplicates = <<>>
    /\ replays = <<>>
    /\ idx = 1
    /\ run_result = [timestamp |-> 0, replaydatas |-> <<>>]
    /\ session_data = SessionInit
    /\ screen = <<>>
    /\ healthLog = NoLog
    /\ tickLog = NoTick
    /\ recorded = {}
    /\ recordedBefore = {}
    /\ prev = <<>>
    /\ probe \in {[phase |-> "in", upload |-> u] : u \in Uploads}
    /\ log = FreshLog
    /\ error = NoError
    /\ startStore = {}

Submit ==
    /\ pc = "submit"
    /\ probe.phase = "in"
    /\ probe' = [phase |-> "out", upload |-> probe.upload,
                 result |-> upload_replay(probe.upload)]
    /\ UNCHANGED <<pc, tick, watch, check, dupFile, known_duplicates, replays, idx,
                   run_result, session_data, screen, healthLog, tickLog, recorded,
                   recordedBefore, prev, log, error, startStore>>

SpecSubmit == SubmitInit /\ [][Submit]_vars

\* ------------------------- remove_duplicate_lines_from_file on its own
\* every content of the duplicates file of at most MaxContent tokens: names,
\* blanks and line breaks in any arrangement, and the absent file
Tokens == {"a", "b", " ", NL}
Contents == UNION {[1..n -> Tokens] : n \in 0..MaxContent}
CompactInputs == {NoFile} \cup {FileOf(c) : c \in Contents}

CompactInit ==
    /\ pc = "compaction"
    /\ tick = 1
    /\ watch = 0
    /\ check = FALSE
    /\ dupFile \in CompactInputs
    /\ known_duplicates = <<>>
    /\ replays = <<>>
    /\ idx = 1
    /\ run_result = [timestamp |-> 0, replaydatas |-> <<>>]
    /\ session_data = SessionInit
    /\ screen = <<>>
    /\ healthLog = NoLog
    /\ tickLog = NoTick
    /\ recorded = {}
    /\ recordedBefore = {}
    /\ prev = <<>>
    /\ probe = [phase |-> "compaction", passes |-> 0, input |-> dupFile, last |-> dupFile,
                bytes |-> 0]
    /\ log = FreshLog
    /\ error = NoError
    /\ startStore = {}

\* one call of remove_duplicate_lines_from_file on the file as the call
\* before it left it
CompactPass ==
    /\ pc = "compaction"
    /\ probe.passes < MaxPasses
    /\ \E out \in remove_duplicate_lines_from_file(dupFile) :
        /\ dupFile' = out.file
        /\ pc' = IF out.raised THEN "raised" ELSE pc
        /\ probe' = [probe EXCEPT !.passes = @ + 1, !.last = dupFile, !.bytes = out.bytes]
    /\ UNCHANGED <<tick, watch, check, known_duplicates, replays, idx, run_result,
                   session_data, screen, healthLog, tickLog, recorded, recordedBefore, prev,
                   log, error, startStore>>

SpecCompact == CompactInit /\ [][CompactPass]_vars

\* ------------------------------ the duplicates file removed from outside
\* the file is deleted by the user or another program while main() runs
RemoveStore ==
    /\ pc \in {"health", "sleep30", "discover", "check", "upload", "compact", "sleep"}
    /\ dupFile.exists
    /\ dupFile' = NoFile
    /\ UNCHANGED <<pc, tick, watch, check, known_duplicates, replays, idx, run_result,
                   session_data, screen, healthLog, tickLog, recorded, recordedBefore,
                   prev, probe, log, error, startStore>>

NextExternal ==
    \/ Next
    \/ RemoveStore

SpecExternal == Init /\ [][NextExternal]_vars

\* -------------------------------------------- write_rotated_log on its own
\* the directory log as earlier runs left it: absent, empty, or holding the
\* index of the last log written and the logs up to it
LogWith(index) ==
    [dir |-> TRUE,
     rotate |-> FileOf(str(index) \o <<NL>>),
     files |-> [n \in {LogName(session_log_file_identifier, i) : i \in 0..index} |->
                   FileOf(PrinterLog \o <<NL>>)]]

RotateInputs ==
    {FreshLog, [FreshLog EXCEPT !.dir = TRUE]}
        \cup {LogWith(index) : index \in 0..max_session_logfiles}

RotateInit ==
    /\ pc = "rotate"
    /\ tick = 1
    /\ watch = 0
    /\ check = FALSE
    /\ dupFile = NoFile
    /\ known_duplicates = <<>>
    /\ replays = <<>>
    /\ idx = 1
    /\ run_result = [timestamp |-> 0, replaydatas |-> <<>>]
    /\ session_data = SessionInit
    /\ screen = <<>>
    /\ healthLog = NoLog
    /\ tickLog = NoTick
    /\ recorded = {}
    /\ recordedBefore = {}
    /\ prev = <<>>
    /\ log \in RotateInputs
    /\ error = NoError
    /\ startStore = {}
    /\ probe = [phase |-> "rotate", input |-> log, before |-> log, used |-> <<>>,
                names |-> <<>>]

\* one call of write_rotated_log; probe keeps the directory before the call
\* and the indices and names the calls used
Persist ==
    /\ pc = "rotate"
    /\ Len(probe.used) < MaxPersists
    /\ LET w == write_rotated_log(log, session_log_file_identifier, PrinterLog)
       IN  /\ log' = w.log
           /\ probe' = [probe EXCEPT !.before = log,
                                     !.used = Append(@, w.index),
                                     !.names = Append(@, w.name)]
           /\ pc' = IF w.raised # "" THEN "raised" ELSE pc
    /\ UNCHANGED <<tick, watch, check, dupFile, known_duplicates, replays, idx, run_result,
                   session_data, screen, healthLog, tickLog, recorded, recordedBefore,
                   prev, error, startStore>>

SpecRotate == RotateInit /\ [][Persist]_vars

\* ------------------------- write_rotated_log with failing writes of the log
\* runs of the program one after the other, each ending in one call of
\* write_rotated_log whose write of the log file succeeds or fails; probe
\* keeps the index each call used and whether it failed
AttemptInit ==
    /\ pc = "attempt"
    /\ tick = 1
    /\ watch = 0
    /\ check = FALSE
    /\ dupFile = NoFile
    /\ known_duplicates = <<>>
    /\ replays = <<>>
    /\ idx = 1
    /\ run_result = [timestamp |-> 0, replaydatas |-> <<>>]
    /\ session_data = SessionInit
    /\ screen = <<>>
    /\ healthLog = NoLog
    /\ tickLog = NoTick
    /\ recorded = {}
    /\ recordedBefore = {}
    /\ prev = <<>>
    /\ log \in RotateInputs
    /\ error = NoError
    /\ startStore = {}
    /\ probe = [phase |-> "attempt", input |-> log, before |-> log, used |-> <<>>,
                failed |-> <<>>]

PersistAttempt ==
    /\ pc = "attempt"
    /\ Len(probe.used) < MaxAttempts
    /\ \E io \in IOOutcomes :
        \E w \in IF io = "ok"
                 THEN {write_rotated_log(log, session_log_file_identifier, PrinterLog)}
                 ELSE write_rotated_log_failing(log, session_log_file_identifier,
                                                PrinterLog) :
            /\ log' = w.log
            /\ probe' = [probe EXCEPT !.before = log,
                                      !.used = Append(@, w.index),
                                      !.failed = Append(@, w.raised # "")]
            /\ error' = IF w.raised # "" THEN Raised(w.raised, "log") ELSE NoError
    /\ UNCHANGED <<pc, tick, watch, check, dupFile, known_duplicates, replays, idx,
                   run_result, session_data, screen, healthLog, tickLog, recorded,
                   recordedBefore, prev, startStore>>

SpecAttempt == AttemptInit /\ [][PersistAttempt]_vars

\* ------------------------------------------------- main() from its first line
\* the command line: one that argparse rejects, --version, or one to run with
Arguments == {"invalid", "version", "run"}

\* main(), lines 220-249: parse_args leaves with SystemExit(2) on a command
\* line it rejects, --version prints and returns SUCCESS, and without an API
\* token or a replay path main returns ERR_USAGE
Startup(arguments, got_api_token, got_replay_path) ==
    IF arguments = "invalid" THEN "usage"
    ELSE IF arguments = "version" THEN "version"
    ELSE IF ~got_api_token \/ ~got_replay_path THEN "usage"
    ELSE "health"

StartInit ==
    /\ pc = "start"
    /\ tick = 1
    /\ watch \in WatchValues
    /\ check \in BOOLEAN
    /\ dupFile \in InitStores
    /\ known_duplicates = <<>>
    /\ replays = <<>>
    /\ idx = 1
    /\ run_result = [timestamp |-> 0, replaydatas |-> <<>>]
    /\ session_data = SessionInit
    /\ screen = <<>>
    /\ healthLog = NoLog
    /\ tickLog = NoTick
    /\ recorded = SeqToSet([i \in 1..Len(read_file_lines(dupFile)) |->
                               rstrip(read_file_lines(dupFile)[i])])
    /\ recordedBefore = recorded
    /\ prev = <<>>
    /\ probe = [phase |-> "start", arguments |-> ""]
    /\ log \in {FreshLog, LogWith(10)}
    /\ error = NoError
    /\ startStore = StoreBasenames(dupFile)

ReadArgs ==
    /\ pc = "start"
    /\ \E arguments \in Arguments, got_api_token \in BOOLEAN, got_replay_path \in BOOLEAN :
        /\ pc' = Startup(arguments, got_api_token, got_replay_path)
        /\ probe' = [probe EXCEPT !.arguments = arguments]
    /\ UNCHANGED <<tick, watch, check, dupFile, known_duplicates, replays, idx, run_result,
                   session_data, screen, healthLog, tickLog, recorded, recordedBefore, prev,
                   log, error, startStore>>

NextStart ==
    \/ ReadArgs
    \/ Next

SpecStart == StartInit /\ [][NextStart]_vars

\* ------------------------------------------------ truncate_string on its own
\* a string is the sequence of its characters
Ellipsis == <<".", ".", ".">>

\* string[:stop] of Python: a negative stop counts from the end, and a stop
\* outside the string is clamped to its ends
SliceTo(string, stop) ==
    LET n == Len(string)
        from_end == IF stop < 0 THEN stop + n ELSE stop
        clamped == IF from_end < 0 THEN 0 ELSE IF from_end > n THEN n ELSE from_end
    IN  SubSeq(string, 1, clamped)

Smaller(a, b) == IF a < b THEN a ELSE b

truncate_string(string, length, ending) ==
    SliceTo(string, Smaller(length, Len(string)) - Len(ending)) \o ending

TruncateStrings == UNION {[1..n -> {"a", "b"}] : n \in 0..MaxString}

TruncateInit ==
    /\ pc = "truncate"
    /\ tick = 1
    /\ watch = 0
    /\ check = FALSE
    /\ dupFile = NoFile
    /\ known_duplicates = <<>>
    /\ replays = <<>>
    /\ idx = 1
    /\ run_result = [timestamp |-> 0, replaydatas |-> <<>>]
    /\ session_data = SessionInit
    /\ screen = <<>>
    /\ healthLog = NoLog
    /\ tickLog = NoTick
    /\ recorded = {}
    /\ recordedBefore = {}
    /\ prev = <<>>
    /\ probe \in {[phase |-> "in", string |-> string, length |-> length] :
                     string \in TruncateStrings, length \in 0..MaxLength}
    /\ log = FreshLog
    /\ error = NoError
    /\ startStore = {}

Truncate ==
    /\ pc = "truncate"
    /\ probe.phase = "in"
    /\ probe' = [phase |-> "out", string |-> probe.string, length |-> probe.length,
                 result |-> truncate_string(probe.string, probe.length, Ellipsis)]
    /\ UNCHANGED <<pc, tick, watch, check, dupFile, known_duplicates, replays, idx,
                   run_result, session_data, screen, healthLog, tickLog, recorded,
                   recordedBefore, prev, log, error, startStore>>

SpecTruncate == TruncateInit /\ [][Truncate]_vars

\* --------------------------------------------- interrupts from the keyboard
\* KeyboardInterrupt raised in the try block of the health check: health is
\* still False, so the finally block reports, sleeps and continues, and the
\* continue discards the exception
InterruptHealthCheck ==
    /\ pc = "health"
    /\ healthLog.fails < MaxHealthFails
    /\ healthLog' = [healthLog EXCEPT !.fails = @ + 1, !.last = "KeyboardInterrupt"]
    /\ pc' = "sleep30"
    /\ screen' = <<Out("health_failed", <<>>)>>
    /\ UNCHANGED <<tick, watch, check, dupFile, known_duplicates, replays, idx, run_result,
                   session_data, tickLog, recorded, recordedBefore, prev, probe,
                   log, error, startStore>>

\* KeyboardInterrupt raised anywhere else in main(): in time.sleep(30), in the
\* discovery, between two passes of the upload loop, before the statistics or
\* the clean-up, in time.sleep(Config.watch); it leaves main()
Interrupt ==
    /\ pc \in {"sleep30", "discover", "check", "upload", "compact", "sleep"}
    /\ pc' = "interrupted"
    /\ error' = Raised("KeyboardInterrupt", pc)
    /\ UNCHANGED <<tick, watch, check, dupFile, known_duplicates, replays, idx, run_result,
                   session_data, screen, healthLog, tickLog, recorded, recordedBefore,
                   prev, probe, log, startStore>>

NextInterrupt ==
    \/ Next
    \/ InterruptHealthCheck
    \/ Interrupt

SpecInterrupt == Init /\ [][NextInterrupt]_vars

\* ------------------------------------------------------------------ claims
Entities == DOMAIN replays
Handled(i) == replays[i].returned # ""

\* C1: once a basename was appended to the duplicates file after an upload
\* classified success or duplicate, no later tick submits a discovered file
\* with that basename.
C1_NoResubmitOfRecorded ==
    \A i \in Entities :
        replays[i].basename \in recordedBefore => replays[i].calls = 0

\* C2: an entity whose basename is among the duplicates read at its
\* construction, whatever its directory, makes no request, returns null, keeps
\* its outcome not-attempted and its remote id empty, and appends nothing to
\* the duplicates file.
C2_KnownDuplicateState ==
    \A i \in Entities :
        replays[i].basename \in SeqToSet(replays[i].read) =>
            /\ replays[i].calls = 0
            /\ replays[i].upload_result = ""
            /\ replays[i].ballchasing_id = ""
            /\ replays[i].appends = 0
            /\ replays[i].returned \in {"", "null"}
            /\ i < idx => replays[i].returned = "null"

C2_KnownDuplicateStep ==
    \A i \in Entities :
        (/\ pc = "upload" /\ idx = i /\ idx' = i + 1
         /\ replays[i].basename \in SeqToSet(replays[i].read)) =>
            /\ dupFile' = dupFile
            /\ run_result' = run_result
            /\ tickLog' = tickLog

C2_KnownDuplicateSkipped == []C2_KnownDuplicateState /\ [][C2_KnownDuplicateStep]_vars

\* the file of directory d2 is skipped after the file of d1 alone was recorded
C2_Witness ==
    \E i \in Entities :
        /\ replays[i].path = <<D2, A>>
        /\ replays[i].basename \in SeqToSet(replays[i].read)
        /\ replays[i].returned = "null"
        /\ dupFile.content = A \o <<NL>>
        /\ \E j \in DOMAIN prev : prev[j].path = <<D1, A>> /\ prev[j].appends = 1
        /\ \A j \in DOMAIN prev : prev[j].path # <<D2, A>>

\* C3: for every status code submit returns exactly one of success (exactly
\* when the status is 201), duplicate (exactly when it is 409) and fail (any
\* other status); success and duplicate carry a non-empty remote id, fail an
\* empty one.
C3_ClassificationTotal ==
    probe.phase = "out" =>
        LET code == probe.upload.status_code
            res == probe.result
        IN  /\ res.result \in {"success", "duplicate", "fail"}
            /\ res.result = "success" <=> code = 201
            /\ res.result = "duplicate" <=> code = 409
            /\ res.result = "fail" <=> code \notin {201, 409}
            /\ res.result \in {"success", "duplicate"} => res.id # ""
            /\ res.result = "fail" => res.id = ""
            /\ res.status_code = code

\* a conflict answered with the id of the existing replay
C3_Witness ==
    /\ probe.phase = "out"
    /\ probe.upload.status_code = 409
    /\ probe.result.result = "duplicate"
    /\ probe.result.id = "xyz789"

\* the entity of the previous tick that failed for the file of entity i
FailedBefore(i) ==
    \E j \in DOMAIN prev :
        prev[j].path = replays[i].path /\ prev[j].upload_result = "fail"

Submitted(i) ==
    /\ replays[i].returned = "record" => replays[i].calls = 1
    /\ i < idx => replays[i].returned \in {"record", "raised"}

\* C4: a file whose upload was classified fail is not written to the
\* duplicates file by that tick, so when it is discovered again on the next
\* tick its entity is not a known duplicate and it is submitted again.
C4_FailedIsRetried ==
    \A i \in Entities :
        /\ replays[i].upload_result = "fail" => replays[i].appends = 0
        /\ FailedBefore(i) => ~replays[i].duplicate /\ Submitted(i)

\* C5: a fail outcome does not abort the tick: it is returned as a record,
\* the loop goes on with the next entity, and the tick reaches the session
\* statistics and the clean-up of the duplicates file with every entity handled.
C5_FailState ==
    /\ \A i \in Entities :
          replays[i].upload_result = "fail" =>
              /\ replays[i].returned = "record"
              /\ pc # "raised" => i < idx
    /\ (pc \in {"compact", "sleep", "done"} /\ tickLog.absorbs = 1) =>
          \A i \in Entities : Handled(i)

C5_FailStep ==
    (/\ pc = "upload" /\ idx \in Entities /\ replays[idx].upload_result = ""
     /\ replays'[idx].upload_result = "fail") =>
        /\ pc' = "upload"
        /\ idx' = idx + 1
        /\ run_result'.replaydatas =
              Append(run_result.replaydatas,
                     [result |-> "fail", id |-> "", basename |-> replays[idx].basename,
                      url |-> WebUrl \o <<"/replay/", "">>,
                      watch_url |-> WebUrl \o <<"/replay/", "", "#watch">>])

C5_FailDoesNotAbort == []C5_FailState /\ [][C5_FailStep]_vars

\* the first upload failed, the second was made, and the tick reported
C5_Witness ==
    /\ pc = "sleep"
    /\ tickLog.absorbs = 1
    /\ tickLog.compactions = 1
    /\ Len(replays) = 2
    /\ replays[1].upload_result = "fail"
    /\ replays[2].upload_result = "success"
    /\ Len(run_result.replaydatas) = 2

\* C6: the known-duplicate flag is fixed at construction: of two files of one
\* tick with the same basename, not in the duplicates file at discovery, both
\* are non-duplicates and both are submitted, though the first one's basename
\* is in the file before the second one's upload.
C6_TwinState ==
    \A i, j \in Entities :
        (/\ i < j
         /\ replays[i].basename = replays[j].basename
         /\ replays[i].basename \notin SeqToSet(replays[i].read)) =>
            /\ ~replays[i].duplicate /\ ~replays[j].duplicate
            /\ Submitted(i) /\ Submitted(j)

C6_FlagStep ==
    pc # "discover" =>
        /\ DOMAIN replays' = DOMAIN replays
        /\ \A i \in Entities : replays'[i].duplicate = replays[i].duplicate

C6_FlagFixedTwinsSubmitted == []C6_TwinState /\ [][C6_FlagStep]_vars

C6_Witness ==
    \E i, j \in Entities :
        /\ i < j
        /\ replays[i].basename = replays[j].basename
        /\ replays[i].appends = 1
        /\ ~replays[j].duplicate
        /\ replays[j].stored
        /\ replays[j].calls = 1

\* C7: when the health check fails n times in a row and then succeeds, the
\* orchestrator has made exactly n waits of 30 time-units, no discovery and no
\* upload attempt before the successful check, and then discovers.
C7_HealthState ==
    /\ pc = "discover" =>
          /\ healthLog.waits = healthLog.fails
          /\ healthLog.seconds = 30 * healthLog.fails
    /\ pc = "sleep30" => healthLog.waits = healthLog.fails - 1
    /\ pc \in {"health", "sleep30", "discover"} =>
          /\ tickLog.discoveries = 0
          /\ tickLog.submits = 0
          /\ tickLog.appends = 0

C7_HealthStep ==
    /\ pc = "health" =>
          \/ /\ pc' = "discover"
             /\ healthLog'.fails = healthLog.fails
             /\ healthLog'.waits = healthLog.waits
             /\ healthLog'.last = "200"
          \/ pc' = "sleep30" /\ healthLog'.fails = healthLog.fails + 1
    /\ pc = "sleep30" =>
          /\ pc' = "health"
          /\ healthLog'.waits = healthLog.waits + 1
          /\ healthLog'.seconds = healthLog.seconds + 30
    /\ pc = "discover" => pc' = "check" /\ tickLog'.discoveries = 1

C7_WaitsEqualFailures == []C7_HealthState /\ [][C7_HealthStep]_vars

\* two failed checks, two waits of 30, then the healthy check
C7_Witness ==
    /\ pc = "discover"
    /\ healthLog = [fails |-> 2, waits |-> 2, seconds |-> 60, last |-> "200"]

\* C8: a failed health check, a status other than 200 or a failure to
\* connect, never ends the loop and never reaches the process wrapper: it
\* is reported, a fixed wait follows and the check is made again.
C8_FailedCheckStep ==
    /\ (pc = "health" /\ healthLog'.last \in {"503", "ConnectionError", "ReadTimeout"}) =>
          /\ healthLog'.fails = healthLog.fails + 1
          /\ pc' = "sleep30"
          /\ screen' = <<Out("health_failed", <<>>)>>
          /\ UNCHANGED <<tick, dupFile, known_duplicates, replays, idx, run_result,
                         session_data, tickLog, recorded>>
    /\ pc = "health" => pc' \notin {"raised", "done", "checked"}
    /\ pc = "sleep30" => pc' = "health" /\ healthLog'.fails = healthLog.fails

C8_FailedCheckRetries == [][C8_FailedCheckStep]_vars

\* the check is made again after a failure to connect
C8_Witness ==
    /\ pc = "health"
    /\ healthLog.last = "ConnectionError"
    /\ healthLog.fails = 1
    /\ healthLog.waits = 1

\* C9: after the report of a tick the orchestrator returns exactly when the
\* watch interval is zero; otherwise it sleeps the interval and checks the
\* health again.  With a watch interval of zero there is exactly one tick:
\* one discovery, one update of the statistics, one clean-up.
C9_HaltState ==
    /\ pc = "done" =>
          /\ watch = 0
          /\ tick = 1
          /\ tickLog.discoveries = 1 /\ tickLog.absorbs = 1 /\ tickLog.compactions = 1
    /\ pc = "sleep" => watch # 0
    /\ watch = 0 =>
          /\ tick = 1
          /\ tickLog.discoveries <= 1 /\ tickLog.absorbs <= 1 /\ tickLog.compactions <= 1
    /\ tick > 1 => tickLog.slept = watch

C9_HaltStep ==
    /\ (pc = "compact" /\ pc' # "raised") =>
          /\ watch = 0 => pc' = "done"
          /\ watch # 0 => pc' = "sleep"
    /\ pc = "sleep" => pc' = "health" /\ tick' = tick + 1 /\ tickLog'.slept = watch

C9_HaltsIffWatchZero == []C9_HaltState /\ [][C9_HaltStep]_vars

C9_Witness ==
    /\ pc = "done"
    /\ watch = 0
    /\ ~check
    /\ tickLog.submits = 2

\* C10: in check-only mode, for every discovered list and every watch
\* interval, no file is submitted, nothing is appended to the duplicates
\* file, the clean-up is not run, the statistics are not changed and no
\* header or body of the report is printed.
C10_CheckOnlyChangesNothing ==
    check =>
        /\ tickLog.submits = 0
        /\ tickLog.appends = 0
        /\ tickLog.absorbs = 0
        /\ tickLog.compactions = 0
        /\ session_data = SessionInit
        /\ \A k \in DOMAIN screen : screen[k].kind \notin {"header", "body"}

\* C11: in check-only mode the attributes of every discovered entity are
\* printed after the discovery, one output per entity in the order of
\* discovery, and the tick then ends: it never enters the upload loop, the
\* statistics or the clean-up.
C11_CheckOnlySurfacesAll ==
    check =>
        /\ pc = "checked" =>
              /\ Len(screen) = Len(replays)
              /\ \A i \in Entities : screen[i] = Out("attributes", replays[i].path)
        /\ pc \notin {"upload", "compact", "sleep", "done"}

\* C12: after every update of the session statistics, over any number of
\* ticks, new_uploads + new_duplicates + old_duplicates = total_replays and
\* total_duplicates = old_duplicates + new_duplicates.
C12_TotalsAddUp ==
    /\ session_data.new_uploads + session_data.new_duplicates
          + session_data.old_duplicates = session_data.total_replays
    /\ session_data.total_duplicates =
          session_data.old_duplicates + session_data.new_duplicates

\* the statistics were updated in two ticks, with all three counters set
C12_Witness ==
    /\ tick = 2
    /\ tickLog.absorbs = 1
    /\ session_data.new_uploads >= 1
    /\ session_data.new_duplicates >= 1
    /\ session_data.old_duplicates >= 1
    /\ session_data.total_replays >= 4

\* the entities of this tick answered with the status code
Answered(code) == {i \in Entities : replays[i].calls = 1 /\ replays[i].status_code = code}

\* the entities of this tick that were known duplicates and made no request
NotAttempted == {i \in Entities : replays[i].duplicate /\ replays[i].calls = 0}

\* C13: each update of the statistics adds the tick's number of success
\* outcomes to new_uploads and its number of duplicate outcomes to
\* new_duplicates, and sets old_duplicates to the number of this tick's
\* entities that were known duplicates and not attempted; after a tick whose
\* only file is a known duplicate old_duplicates is 1.
C13_AbsorbStep ==
    IF pc = "upload" /\ pc' = "compact"
    THEN /\ session_data'.new_uploads =
               session_data.new_uploads + Cardinality(Answered(201))
         /\ session_data'.new_duplicates =
               session_data.new_duplicates + Cardinality(Answered(409))
         /\ session_data'.old_duplicates = Cardinality(NotAttempted)
    ELSE session_data' = session_data

C13_AbsorbState ==
    (/\ tickLog.absorbs = 1
     /\ Len(replays) = 1
     /\ replays[1].basename \in SeqToSet(replays[1].read)) =>
        session_data.old_duplicates = 1

C13_AbsorbCounts == []C13_AbsorbState /\ [][C13_AbsorbStep]_vars

\* the second tick adds its upload to the one of the first tick, and counts
\* its own skipped file, not the one skipped by the first tick as well
C13_Witness ==
    /\ tick = 2
    /\ tickLog.absorbs = 1
    /\ session_data.new_uploads = 2
    /\ session_data.old_duplicates = 1
    /\ \E j \in DOMAIN prev : prev[j].returned = "null"
    /\ \E j \in DOMAIN prev : prev[j].upload_result = "success"

\* C14: the history of the session holds exactly the run results of the ticks
\* that had at least one record, in the order of the ticks: the update of the
\* statistics appends the run result of the tick when it has a record and
\* leaves the history alone when it has none; no run result of the history
\* is empty.
C14_HistoryState ==
    LET h == session_data.run_results
    IN  /\ \A k \in DOMAIN h : Len(h[k].replaydatas) > 0
        /\ \A k, l \in DOMAIN h : k < l => h[k].timestamp < h[l].timestamp
        /\ \A k \in DOMAIN h : h[k].timestamp \in 1..tick

C14_HistoryStep ==
    LET h == session_data.run_results
    IN  IF pc = "upload" /\ pc' = "compact"
        THEN session_data'.run_results =
                IF Len(run_result.replaydatas) >= 1 THEN Append(h, run_result) ELSE h
        ELSE session_data'.run_results = h

C14_HistoryOfNonEmptyRuns == []C14_HistoryState /\ [][C14_HistoryStep]_vars

\* a tick with a record was followed by a tick without one
C14_Witness ==
    /\ tick = 2
    /\ tickLog.absorbs = 1
    /\ replays # <<>>
    /\ run_result.replaydatas = <<>>
    /\ Len(session_data.run_results) = 1
    /\ session_data.run_results[1].timestamp = 1

\* the basenames and results of the entities that made a request, in order
RECURSIVE Requested(_)
Requested(rs) ==
    IF rs = <<>> THEN <<>>
    ELSE (IF Head(rs).calls = 1
          THEN << [basename |-> Head(rs).basename, result |-> Head(rs).upload_result] >>
          ELSE <<>>) \o Requested(Tail(rs))

RecordKeys(rds) ==
    [k \in DOMAIN rds |-> [basename |-> rds[k].basename, result |-> rds[k].result]]

UploadingComplete ==
    \/ pc = "upload" /\ LoopDone(idx, replays)
    \/ pc \in {"compact", "sleep", "done"} /\ tickLog.absorbs = 1

\* C15: when the upload loop is over, the run result of the tick holds
\* exactly one record for each entity that made a request, in the order of
\* discovery, and none for a known duplicate; it is empty only when no file
\* was discovered or every discovered file was a known duplicate.
C15_RecordsOfRequests ==
    UploadingComplete =>
        /\ RecordKeys(run_result.replaydatas) = Requested(replays)
        /\ \A i \in Entities : replays[i].duplicate => replays[i].calls = 0
        /\ \A i \in Entities : ~replays[i].duplicate => replays[i].calls = 1
        /\ run_result.replaydatas = <<>> =>
              replays = <<>> \/ \A i \in Entities : replays[i].duplicate

\* three files, the first two known duplicates: one record, for the third
C15_Witness ==
    /\ pc = "upload" /\ LoopDone(idx, replays)
    /\ Len(replays) = 3
    /\ replays[1].duplicate /\ replays[1].returned = "null"
    /\ replays[2].duplicate /\ replays[2].returned = "null"
    /\ replays[3].calls = 1
    /\ Len(run_result.replaydatas) = 1
    /\ run_result.replaydatas[1].basename = replays[3].basename
    /\ run_result.replaydatas[1].result = "fail"

\* the lines of the duplicates file, each without its line break
Persisted(file) == {rstrip(l) : l \in SeqToSet(read_file_lines(file))}

\* the basenames of this tick's entities whose upload was accepted
Accepted ==
    {replays[i].basename : i \in {j \in Entities :
                                     replays[j].upload_result \in {"success", "duplicate"}}}

TickComplete == pc \in {"sleep", "done"} /\ tickLog.compactions = 1

\* C16: after a tick that ran to the end of the clean-up, the set of basenames
\* in the duplicates file is the set it held when the tick discovered its
\* files, plus exactly the basenames of this tick's entities with outcome
\* success or duplicate; from an empty file, one file answered 201 or 409
\* leaves exactly its basename.
C16_StoreAfterTick ==
    /\ pc = "check" => Persisted(dupFile) = recordedBefore
    /\ TickComplete => Persisted(dupFile) = recordedBefore \cup Accepted
    /\ (/\ TickComplete
        /\ recordedBefore = {}
        /\ Len(replays) = 1
        /\ replays[1].status_code \in {201, 409}) =>
            dupFile = FileOf(replays[1].basename \o <<NL>>)

\* two files of one basename were both accepted; the clean-up left one line
C16_Witness ==
    /\ TickComplete
    /\ recordedBefore = {}
    /\ Len(replays) = 2
    /\ replays[1].upload_result = "success" /\ replays[1].appends = 1
    /\ replays[2].upload_result = "duplicate" /\ replays[2].appends = 1
    /\ replays[1].basename = replays[2].basename
    /\ dupFile = FileOf(A \o <<NL>>)

\* the pass of the upload loop that got a record from the upload of entity idx
ReturnsRecord ==
    /\ pc = "upload"
    /\ idx \in Entities
    /\ replays[idx].returned = ""
    /\ replays'[idx].returned = "record"

AppendedToRunResult ==
    /\ Len(run_result'.replaydatas) = Len(run_result.replaydatas) + 1
    /\ SubSeq(run_result'.replaydatas, 1, Len(run_result.replaydatas)) =
          run_result.replaydatas
    /\ run_result'.replaydatas[Len(run_result'.replaydatas)].basename =
          replays[idx].basename

RecordedInStore ==
    dupFile' = FileOf(dupFile.content \o replays[idx].basename \o <<NL>>)

\* C17, as stated: in the upload loop every record returned by the upload of
\* an entity, whatever its outcome, has its basename appended to the
\* duplicates file in the same pass of the loop, before the next entity, and
\* is appended to the run result of the tick.
C17_EveryRecordStep ==
    ReturnsRecord => RecordedInStore /\ AppendedToRunResult /\ idx' = idx + 1

C17_EveryRecordIsRecorded == [][C17_EveryRecordStep]_vars

\* C17, amended: every returned record is appended to the run result of the
\* tick; its basename is appended to the duplicates file in the same pass of
\* the loop exactly when its outcome is success or duplicate, and a record
\* with outcome fail leaves the file as it was.
C17_AcceptedRecordStep ==
    ReturnsRecord =>
        /\ AppendedToRunResult
        /\ idx' = idx + 1
        /\ replays'[idx].upload_result \in {"success", "duplicate"} => RecordedInStore
        /\ replays'[idx].upload_result = "fail" => dupFile' = dupFile
        /\ replays'[idx].upload_result \in {"success", "duplicate", "fail"}

C17_AcceptedRecordIsRecorded == [][C17_AcceptedRecordStep]_vars

\* a failed upload left the file absent, the next upload's conflict wrote
\* its basename before the third entity was handled
C17_Witness ==
    /\ pc = "upload"
    /\ Len(replays) = 3
    /\ idx = 3
    /\ recordedBefore = {}
    /\ replays[1].upload_result = "fail" /\ replays[1].appends = 0
    /\ replays[2].upload_result = "duplicate" /\ replays[2].appends = 1
    /\ ~replays[2].stored
    /\ dupFile = FileOf(replays[2].basename \o <<NL>>)
    /\ Len(run_result.replaydatas) = 2

\* C18: the clean-up is idempotent: for every content of the duplicates file,
\* repeated lines and blank lines included, the content of the file after a
\* second clean-up is identical to its content after the first.
C18_CompactionIdempotent ==
    (probe.phase = "compaction" /\ probe.passes >= 2 /\ pc # "raised") =>
        dupFile = probe.last

\* the names of the lines of a file: each line without its line break and
\* trailing blanks, blank lines left out
Names(file) == Persisted(file) \ {<<>>}

\* C19: after a clean-up of any content of the duplicates file, lines that
\* differ only in trailing blanks or a missing final line break included, no
\* line of the file occurs twice and every basename has exactly one line.
C19_OneLinePerBasename ==
    (probe.phase = "compaction" /\ probe.passes >= 1 /\ pc # "raised") =>
        LET lines == read_file_lines(dupFile)
        IN  /\ \A i, j \in DOMAIN lines : lines[i] = lines[j] => i = j
            /\ \A b \in Names(probe.input) :
                  Cardinality({i \in DOMAIN lines : rstrip(lines[i]) = b}) = 1

\* C20: whenever the duplicates file does not exist when an entity is
\* constructed, at any time while the process runs, the duplicates read are
\* none, nothing is raised, and the entity is not flagged a known duplicate.
C20_AbsentStoreNoDuplicates ==
    \A i \in Entities :
        ~replays[i].found => replays[i].read = <<>> /\ ~replays[i].duplicate

\* C21: when the replay file cannot be opened as its upload starts, no
\* request is made for it, the failure leaves main() as a raised error of the
\* local file system and not as a record with outcome fail, the outcome of the
\* entity stays not-attempted, and its basename is not written to the
\* duplicates file.
C21_UnreadableState ==
    \A i \in Entities :
        replays[i].opened = "error" =>
            /\ replays[i].calls = 0
            /\ replays[i].returned = "raised"
            /\ replays[i].upload_result = ""
            /\ replays[i].ballchasing_id = ""
            /\ replays[i].appends = 0
            /\ pc \in {"raised", "failed"}
            /\ error = Raised("OSError", "open")
            /\ idx = i
            /\ \A k \in DOMAIN run_result.replaydatas :
                  run_result.replaydatas[k].basename = replays[i].basename =>
                      \E j \in 1..(i - 1) : replays[j].basename = replays[i].basename

C21_UnreadableStep ==
    (pc = "upload" /\ idx \in Entities /\ replays'[idx].opened = "error") =>
        /\ dupFile' = dupFile
        /\ run_result' = run_result
        /\ tickLog' = tickLog
        /\ session_data' = session_data

C21_UnreadableRaises == []C21_UnreadableState /\ [][C21_UnreadableStep]_vars

\* the second file could not be opened after the first was uploaded; the
\* wrapper wrote the log and raised the error again
C21_Witness ==
    /\ pc = "failed"
    /\ Len(replays) = 2
    /\ replays[1].upload_result = "success"
    /\ replays[2].opened = "error"
    /\ replays[2].calls = 0
    /\ Len(run_result.replaydatas) = 1
    /\ dupFile = FileOf(replays[1].basename \o <<NL>>)
    /\ DOMAIN log.files = {<<"session", ".log">>}

\* the entities of this tick whose accepted upload was not written
Unwritten ==
    {i \in Entities : /\ replays[i].upload_result \in {"success", "duplicate"}
                      /\ replays[i].appends = 0}

\* C22: when the append of a basename to the duplicates file, or the rewrite
\* of the file by the clean-up, fails with an error of the file system, the
\* error leaves the operation, main() and reaches the wrapper; the tick does
\* not go on as though the file had been written.
C22_WriteErrorState ==
    /\ \A i \in Unwritten :
          /\ replays[i].returned = "raised"
          /\ idx = i
          /\ pc \in {"raised", "failed"}
          /\ error = Raised("OSError", "append")
          /\ tickLog.absorbs = 0
    /\ error.type = "OSError" => pc \in {"raised", "failed"}
    /\ pc = "failed" => DOMAIN log.files # {}

C22_WriteErrorStep ==
    /\ (pc = "compact" /\ dupFile' # dupFile /\ Persisted(dupFile') # Persisted(dupFile)) =>
          pc' = "raised" /\ error' = Raised("OSError", "rewrite")
    /\ pc = "raised" => pc' = "failed" /\ error' = error
    /\ pc = "failed" => pc' = "failed"

C22_WriteErrorPropagates == []C22_WriteErrorState /\ [][C22_WriteErrorStep]_vars

\* the append failed after an accepted upload, and the wrapper raised it again
C22_Witness ==
    /\ pc = "failed"
    /\ error = Raised("OSError", "append")
    /\ Len(replays) = 2
    /\ replays[1].appends = 1
    /\ replays[2].upload_result = "success"
    /\ replays[2].appends = 0
    /\ Len(run_result.replaydatas) = 1
    /\ tickLog.absorbs = 0

\* C23: whenever main() is ended abnormally, by an interrupt that arrives
\* in any state of the tick (the health check, its wait of 30, the discovery,
\* the upload loop, the report, the sleep between ticks) or by an error that
\* nothing handles, the session log is written through the log rotation
\* before the process exits.
C23_AbnormalEndState ==
    pc \in {"exited", "failed"} =>
        /\ error # NoError
        /\ <<"session", ".log">> \in DOMAIN log.files
        /\ log.rotate = FileOf(<<"0", NL>>)

C23_AbnormalEndStep ==
    /\ healthLog'.last = "KeyboardInterrupt" /\ healthLog' # healthLog =>
          pc' = "interrupted"
    /\ error' # error => pc' \in {"interrupted", "raised"}
    /\ pc \in {"interrupted", "raised"} =>
          /\ pc' \in {"exited", "failed"}
          /\ <<"session", ".log">> \in DOMAIN log'.files

C23_AbnormalEndPersists == []C23_AbnormalEndState /\ [][C23_AbnormalEndStep]_vars

\* the names <identifier>.log, <identifier>.log1 .. <identifier>.log<max>
RingNames ==
    {<<"session", ".log">>} \cup
        {<<"session", ".log">> \o str(i) : i \in 1..max_session_logfiles}

\* the index held by the file <identifier>.rotate
Sidecar(lg) == int(readline(lg.rotate.content))

\* C24: the log rotation is a ring: when the index file holds the maximum
\* (10), the next call writes <identifier>.log without a suffix and sets the
\* index file to 0; after any sequence of calls the index in the file is
\* within 0..max and only the max + 1 names .log, .log1 .. .log<max> are
\* written.
C24_RingState ==
    probe.phase = "rotate" =>
        /\ pc = "rotate"
        /\ log.rotate.exists => IsInt(readline(log.rotate.content))
                                /\ Sidecar(log) \in 0..max_session_logfiles
        /\ DOMAIN log.files \subseteq RingNames
        /\ \A k \in DOMAIN probe.names : probe.names[k] \in RingNames

C24_RingStep ==
    (probe.phase = "rotate" /\ log.rotate.exists
     /\ Sidecar(log) = max_session_logfiles) =>
        /\ DOMAIN log'.files = DOMAIN log.files \cup {<<"session", ".log">>}
        /\ \A n \in DOMAIN log.files :
              n # <<"session", ".log">> => log'.files[n] = log.files[n]
        /\ log'.files[<<"session", ".log">>] = FileOf(PrinterLog \o <<NL>>)
        /\ log'.rotate = FileOf(<<"0", NL>>)

C24_RotationIsRing == []C24_RingState /\ [][C24_RingStep]_vars

\* twelve calls from a fresh state: the twelfth wrapped to .log
C24_Witness ==
    /\ probe.phase = "rotate"
    /\ probe.input = FreshLog
    /\ probe.used = <<0, 1, 2, 3, 4, 5, 6, 7, 8, 9, 10, 0>>
    /\ Sidecar(log) = 0
    /\ DOMAIN log.files = RingNames
    /\ Sidecar(probe.before) = 10

\* C25: a call without an index file uses index 0 and writes
\* <identifier>.log without a suffix; with an index file holding i < max it
\* writes <identifier>.log<i+1>; both store the index used in the index file
\* and create the directory when it is absent; so k calls from a fresh state
\* use the indices 0, 1, .., (k-1) mod (max+1).
C25_PersistStep ==
    probe.phase = "rotate" =>
        LET used == probe'.used[Len(probe'.used)]
            name == probe'.names[Len(probe'.names)]
        IN  /\ ~log.rotate.exists =>
                  used = 0 /\ name = <<"session", ".log">>
            /\ (log.rotate.exists /\ Sidecar(log) < max_session_logfiles) =>
                  /\ used = Sidecar(log) + 1
                  /\ name = <<"session", ".log">> \o str(Sidecar(log) + 1)
            /\ log'.dir
            /\ log'.rotate = FileOf(str(used) \o <<NL>>)
            /\ Sidecar(log') = used
            /\ name \in DOMAIN log'.files
            /\ log'.files[name] = FileOf(PrinterLog \o <<NL>>)
            /\ \A n \in DOMAIN log.files : n # name =>
                  n \in DOMAIN log'.files /\ log'.files[n] = log.files[n]

C25_PersistState ==
    (probe.phase = "rotate" /\ probe.input = FreshLog) =>
        \A k \in DOMAIN probe.used :
            probe.used[k] = (k - 1) % (max_session_logfiles + 1)

C25_PersistIndices == []C25_PersistState /\ [][C25_PersistStep]_vars

\* two calls in an absent directory: .log, then .log1, index file 1
C25_Witness ==
    /\ probe.phase = "rotate"
    /\ probe.input = FreshLog
    /\ probe.names = << <<"session", ".log">>, <<"session", ".log", "1">> >>
    /\ log.dir
    /\ log.rotate = FileOf(<<"1", NL>>)

\* the number of requests made by the entities of a list
RECURSIVE Calls(_)
Calls(rs) == IF rs = <<>> THEN 0 ELSE Head(rs).calls + Calls(Tail(rs))

\* C26: the uploads of a tick are strictly sequential: for attempted
\* entities e1 before e2 in the order of discovery, the request of e1, its
\* classification and its append to the duplicates file, if any, are
\* complete before the request of e2 begins; at most one request is in
\* flight at any time.
C26_SequentialState ==
    \A i, j \in Entities :
        (i < j /\ replays[j].calls = 1) =>
            /\ replays[i].returned \in {"null", "record"}
            /\ replays[i].returned = "record" =>
                  /\ replays[i].calls = 1
                  /\ replays[i].upload_result \in {"success", "duplicate", "fail"}
                  /\ replays[i].upload_result \in {"success", "duplicate"} =>
                        /\ replays[i].appends = 1
                        /\ replays[i].basename = replays[j].basename => replays[j].stored

C26_SequentialStep ==
    pc # "discover" =>
        /\ Calls(replays') \in {Calls(replays), Calls(replays) + 1}
        /\ Calls(replays') = Calls(replays) + 1 =>
              /\ pc = "upload"
              /\ replays'[idx].calls = 1
              /\ \A i \in Entities : i < idx => replays[i].returned \in {"null", "record"}
              /\ \A i \in Entities : i > idx => replays[i].returned = ""
              /\ tickLog'.submits = tickLog.submits + 1

C26_UploadsSequential == []C26_SequentialState /\ [][C26_SequentialStep]_vars

\* three requests of one tick, each made after the one before was recorded
C26_Witness ==
    /\ pc = "upload"
    /\ Len(replays) = 3
    /\ idx = 4
    /\ \A i \in Entities : replays[i].calls = 1 /\ replays[i].appends = 1
    /\ replays[2].stored
    /\ dupFile = FileOf(replays[1].basename \o <<NL>> \o replays[2].basename \o <<NL>>
                        \o replays[3].basename \o <<NL>>)

\* the entities of this tick that old_duplicates counts
Skipped == {i \in Entities : replays[i].upload_result = "" /\ replays[i].duplicate = TRUE}

\* C27: after any tick, old_duplicates counts only discovered files whose
\* basenames were already in the duplicates file when the session started;
\* a file first uploaded or found duplicate during this session is not
\* counted as an old duplicate in a later tick.
C27_OldDuplicatesFromStart ==
    (pc = "compact" /\ tickLog.absorbs >= 1) =>
        session_data.old_duplicates =
            Cardinality({i \in Skipped : replays[i].basename \in startStore})

\* the second tick skips the file the first tick uploaded, and counts it
C27_UploadedThenOld ==
    /\ pc = "compact"
    /\ tick = 2
    /\ startStore = {}
    /\ Len(replays) = 1
    /\ Skipped = {1}
    /\ session_data.new_uploads = 1
    /\ session_data.old_duplicates = 1

\* C28: for a remote status other than 201 and 409, the json field of the
\* upload result holds the body the remote service returned, unparsed,
\* alongside the status code.
C28_FailKeepsBody ==
    (/\ probe.phase = "out"
     /\ probe.upload.status_code \notin {StatusCreated, StatusConflict}) =>
        /\ probe.result.result = "fail"
        /\ probe.result.status_code = probe.upload.status_code
        /\ probe.result.json = probe.upload.json

\* a 500 answer whose body is not the json of the result
C28_BodyReplaced ==
    /\ probe.phase = "out"
    /\ probe.upload.status_code = 500
    /\ probe.upload.json = [error |-> "bad request"]
    /\ probe.result.result = "fail"
    /\ probe.result.status_code = 500
    /\ probe.result.json = DefaultJson

Outcomes == {"success", "duplicate", "fail"}

\* C29: the outcome of an entity is set at most once during its lifetime:
\* it starts not attempted, changes only through the single upload call of
\* its tick to success, duplicate or fail, and never changes again or
\* returns to not attempted; the remote id is non-empty only after that
\* transition.
C29_OutcomeState ==
    \A i \in Entities :
        /\ replays[i].upload_result \in Outcomes \cup {""}
        /\ replays[i].calls \in {0, 1}
        /\ replays[i].calls = 0 <=> replays[i].upload_result = ""
        /\ replays[i].ballchasing_id # "" =>
              replays[i].calls = 1 /\ replays[i].upload_result \in {"success", "duplicate"}

C29_OutcomeStep ==
    IF pc = "discover"
    THEN \A i \in DOMAIN replays' :
            replays'[i].upload_result = "" /\ replays'[i].ballchasing_id = ""
    ELSE /\ DOMAIN replays' = DOMAIN replays
         /\ \A i \in Entities :
               /\ replays'[i].path = replays[i].path
               /\ (\/ replays'[i].upload_result # replays[i].upload_result
                   \/ replays'[i].ballchasing_id # replays[i].ballchasing_id
                   \/ replays'[i].calls # replays[i].calls) =>
                     /\ pc = "upload"
                     /\ i = idx
                     /\ replays[i].upload_result = ""
                     /\ replays[i].ballchasing_id = ""
                     /\ replays[i].calls = 0
                     /\ replays'[i].calls = 1
                     /\ replays'[i].upload_result \in Outcomes

C29_OutcomeSetOnce == []C29_OutcomeState /\ [][C29_OutcomeStep]_vars

\* a finished loop: one entity accepted, one answered duplicate, one failed
C29_Witness ==
    /\ pc = "compact"
    /\ Len(replays) = 3
    /\ replays[1].upload_result = "success" /\ replays[1].ballchasing_id = "abc123"
    /\ replays[2].upload_result = "duplicate" /\ replays[2].ballchasing_id = "xyz789"
    /\ replays[3].upload_result = "fail" /\ replays[3].ballchasing_id = ""
    /\ \A i \in Entities : replays[i].calls = 1

\* ------------------------------------------------ the watch loop for ever
\* main() with --watch and without --check, run without an end. The number
\* of the tick and the statistics of the session grow without bound and
\* steer nothing in the loop; here they keep their first values, so that the
\* loop returns to states it has been in. The files stay where they are.
LiveInit == Init /\ watch # 0 /\ check = FALSE

\* main(), lines 280-289, in a directory that nothing else writes to: from
\* the second tick on the files found are the files of the tick before
StableFiles ==
    IF tickLog.slept # 0
    THEN {files \in Discoverable :
             /\ Len(files) = Len(replays)
             /\ \A i \in 1..Len(files) : files[i] = replays[i].path}
    ELSE Discoverable

LiveDiscover ==
    /\ pc = "discover"
    /\ \E files \in StableFiles :
        /\ replays' = BuildReplays(files, dupFile, known_duplicates)
        /\ known_duplicates' = IF files = <<>> THEN known_duplicates
                               ELSE read_known_duplicates(dupFile, known_duplicates).cls
    /\ prev' = replays
    /\ run_result' = [timestamp |-> tick, replaydatas |-> <<>>]
    /\ idx' = 1
    /\ healthLog' = NoLog
    /\ tickLog' = [tickLog EXCEPT !.discoveries = @ + 1]
    /\ recordedBefore' = recorded
    /\ pc' = "check"
    /\ UNCHANGED <<tick, watch, check, dupFile, session_data, screen, recorded, probe,
                   log, error, startStore>>

\* main(), lines 302-304, without the counters of the session
LiveAbsorb ==
    /\ pc = "upload"
    /\ LoopDone(idx, replays)
    /\ screen' = Append(screen, Out("body", <<>>))
    /\ tickLog' = [tickLog EXCEPT !.absorbs = @ + 1]
    /\ pc' = "compact"
    /\ UNCHANGED <<tick, watch, check, dupFile, known_duplicates, replays, idx, run_result,
                   session_data, healthLog, recorded, recordedBefore, prev, probe,
                   log, error, startStore>>

\* main(), line 318: time.sleep(Config.watch), then the next pass, with no
\* last tick
LiveSleepWatch ==
    /\ pc = "sleep"
    /\ tickLog' = [NoTick EXCEPT !.slept = watch]
    /\ pc' = "health"
    /\ UNCHANGED <<tick, watch, check, dupFile, known_duplicates, replays, idx, run_result,
                   session_data, screen, healthLog, recorded, recordedBefore, prev, probe,
                   log, error, startStore>>

NextLive ==
    \/ HealthCheck
    \/ Sleep30
    \/ LiveDiscover
    \/ CheckBranch
    \/ HandleReplay
    \/ LiveAbsorb
    \/ Compact
    \/ LiveSleepWatch
    \/ MainWrapper

\* the positions at which the process has ended
Ended == {"done", "checked", "failed", "exited"}

Positions == {"health", "sleep30", "discover", "check", "upload", "compact", "sleep",
              "raised"} \cup Ended

\* Every step of NextLive changes the position in main() or in the upload
\* loop, and at every position but the ended ones a step of NextLive is
\* possible. The process is one sequential loop whose calls all return: unless
\* it has ended it moves on.
MovesOn ==
    /\ pc \notin Ended
    /\ pc' \in Positions
    /\ idx' \in 1..(Len(AllPaths) + 1)

SpecLive == LiveInit /\ [][NextLive]_vars /\ WF_<<pc, idx>>(MovesOn)

Paths == 1..Len(AllPaths)

\* the tick in progress has an entity for the file
DiscoveredPath(p) == \E i \in Entities : replays[i].path = AllPaths[p]

\* the remote service has answered the request for the file with 201 or 409
AcceptedPath(p) ==
    \E i \in Entities :
        /\ replays[i].path = AllPaths[p]
        /\ replays[i].status_code \in {StatusCreated, StatusConflict}

\* the basename of the file is a line of the duplicates file, and the entity
\* of the file is a known duplicate, for which no request is made
SettledPath(p) ==
    /\ basename_of(AllPaths[p]) \in Persisted(dupFile)
    /\ \A i \in Entities :
          replays[i].path = AllPaths[p] => replays[i].duplicate /\ replays[i].calls = 0

\* C30: in watch mode, if a file stays discoverable, the health check
\* succeeds infinitely often and the remote service eventually answers the
\* request for that file with 201 or 409, then the basename of the file is
\* eventually in the duplicates file and from then on the file is skipped.
C30_EventuallyRecordedAndSkipped ==
    \A p \in Paths :
        (/\ [](pc \in {"check", "upload", "compact", "sleep"} => DiscoveredPath(p))
         /\ []<>(pc = "discover")
         /\ <>AcceptedPath(p))
            => <>[]SettledPath(p)

\* the file with a leading blank in its name, accepted and requested again
C30_AcceptedAndRequestedAgain ==
    /\ pc = "upload"
    /\ Len(replays) = 1
    /\ replays[1].path = AllPaths[3]
    /\ replays[1].calls = 1
    /\ replays[1].status_code = StatusCreated
    /\ replays[1].basename \in Persisted(dupFile)
    /\ ~replays[1].duplicate
    /\ Len(prev) = 1
    /\ prev[1].path = AllPaths[3]
    /\ prev[1].status_code = StatusCreated

\* C31: across any sequence of completed ticks the set of distinct basenames
\* in the duplicates file never shrinks: the append of the upload loop only
\* adds, and a compaction that returns leaves the set of distinct basenames
\* exactly as it was.
C31_StoreStep ==
    /\ pc = "upload" =>
          /\ Persisted(dupFile) \subseteq Persisted(dupFile')
          /\ StoreBasenames(dupFile) \subseteq StoreBasenames(dupFile')
    /\ (pc = "compact" /\ pc' # "raised") =>
          /\ Persisted(dupFile') = Persisted(dupFile)
          /\ StoreBasenames(dupFile') = StoreBasenames(dupFile)
    /\ pc \notin {"upload", "compact"} => dupFile' = dupFile

C31_StoreState ==
    TickComplete =>
        /\ recorded \subseteq Persisted(dupFile)
        /\ startStore \subseteq StoreBasenames(dupFile)

C31_StoreNeverShrinks == []C31_StoreState /\ [][C31_StoreStep]_vars

\* the second tick is complete and the file holds a basename from before the
\* session and one added by it
C31_Witness ==
    /\ TickComplete
    /\ tick = 2
    /\ startStore = {A}
    /\ Cardinality(Persisted(dupFile)) = 2
    /\ recorded = Persisted(dupFile)

\* C32: when the clean-up of the duplicates file is cut short after it has
\* started to rewrite the file (an error of a write between the first
\* overwrite and the appends that follow), every basename that was in the
\* file before the clean-up is still in it afterwards.
C32_CutShortKeepsStore ==
    error = Raised("OSError", "rewrite") => recorded \subseteq Persisted(dupFile)

\* two basenames were in the file; the first was written again, the append
\* of the second raised
C32_OneLineLeft ==
    /\ pc = "failed"
    /\ error = Raised("OSError", "rewrite")
    /\ Cardinality(recorded) = 2
    /\ Cardinality(Persisted(dupFile)) = 1
    /\ Persisted(dupFile) \subseteq recorded

\* the files discovered by this tick and by the tick before it
DiscoveredFiles ==
    {prev[i].path : i \in 1..Len(prev)} \cup {replays[i].path : i \in Entities}

\* C33: after any sequence of ticks total_replays never exceeds the number of
\* distinct replay files discovered during the session: a file uploaded, or
\* found duplicate, in one tick and skipped as a known duplicate in a later
\* tick is counted once. Stated for the first two ticks of a session, whose
\* discoveries are the lists prev and replays.
C33_TotalWithinDiscovered ==
    tick <= 2 => session_data.total_replays <= Cardinality(DiscoveredFiles)

\* one file, uploaded by the first tick and skipped by the second, counted twice
C33_CountedTwice ==
    /\ pc = "compact"
    /\ tick = 2
    /\ Len(prev) = 1 /\ Len(replays) = 1
    /\ DiscoveredFiles = {AllPaths[1]}
    /\ prev[1].upload_result = "success"
    /\ replays[1].duplicate /\ replays[1].calls = 0
    /\ session_data.new_uploads = 1
    /\ session_data.old_duplicates = 1
    /\ session_data.total_replays = 2

\* C34: the clean-up of a duplicates file that exists but holds no line
\* completes without error, returns a count of bytes and leaves the file
\* without basenames; the clean-up of an absent file returns 0 and does not
\* create it.
C34_EmptyAndAbsent ==
    (probe.phase = "compaction" /\ probe.passes >= 1) =>
        /\ probe.last = FileOf(<<>>) =>
              /\ pc # "raised"
              /\ probe.bytes \in Nat
              /\ dupFile.exists
              /\ StoreBasenames(dupFile) = {}
        /\ probe.last = NoFile =>
              /\ pc # "raised"
              /\ probe.bytes = 0
              /\ dupFile = NoFile

\* the clean-up of a file without lines raised
C34_EmptyRaises ==
    /\ probe.phase = "compaction"
    /\ probe.passes = 1
    /\ probe.input = FileOf(<<>>)
    /\ pc = "raised"
    /\ dupFile = FileOf(<<>>)

\* the clean-up of an absent file returned 0 and left it absent
C34_AbsentLeftAlone ==
    /\ probe.phase = "compaction"
    /\ probe.passes = 1
    /\ probe.input = NoFile
    /\ pc = "compaction"
    /\ probe.bytes = 0
    /\ dupFile = NoFile

\* the tick was ended by an error raised in the upload loop
UploadAborted == pc \in {"raised", "failed"} /\ error.at \in {"open", "append"}

\* C35: when a tick is ended by an error raised in the upload loop (a file
\* that has vanished at entity k, say), the basenames appended for the
\* entities before k remain in the duplicates file, while the statistics and
\* the history of the session are exactly as they were before the tick, and
\* the clean-up of the duplicates file is not run.
C35_AbortedState ==
    UploadAborted =>
        /\ tickLog.absorbs = 0
        /\ tickLog.compactions = 0
        /\ \A i \in Entities :
              (i < idx /\ replays[i].appends = 1) =>
                  replays[i].basename \in Persisted(dupFile)
        /\ \A j \in 1..Len(session_data.run_results) :
              session_data.run_results[j].timestamp < tick

C35_AbortedStep ==
    /\ session_data' # session_data =>
          /\ pc = "upload" /\ pc' = "compact"
          /\ tickLog'.absorbs = tickLog.absorbs + 1
    /\ (pc = "upload" /\ pc' = "raised") =>
          /\ dupFile' = dupFile
          /\ session_data' = session_data
          /\ tickLog'.absorbs = 0
    /\ pc = "raised" =>
          /\ pc' = "failed"
          /\ dupFile' = dupFile
          /\ session_data' = session_data
          /\ tickLog' = tickLog

C35_AbortedTickFrame == []C35_AbortedState /\ [][C35_AbortedStep]_vars

\* the second tick appended the basename of its first entity and was ended
\* by the open() of its second; the session holds what the first tick left
C35_Witness ==
    /\ pc = "failed"
    /\ error = Raised("OSError", "open")
    /\ tick = 2
    /\ idx = 2
    /\ Len(replays) >= 2
    /\ replays[1].appends = 1
    /\ replays[1].basename \in Persisted(dupFile)
    /\ replays[2].opened = "error"
    /\ Len(session_data.run_results) = 1
    /\ session_data.run_results[1].timestamp = 1
    /\ tickLog.absorbs = 0
    /\ tickLog.compactions = 0

\* C36: the log file is written before the index file is updated: when the
\* write of the log file fails the index file is unchanged, so the next call
\* uses the same index again and no name of the ring is skipped.
C36_FailedStep ==
    (probe'.failed # <<>> /\ probe'.failed[Len(probe'.failed)]) =>
        /\ log'.rotate = log.rotate
        /\ \A n \in DOMAIN log.files :
              n # LogName(session_log_file_identifier, probe'.used[Len(probe'.used)]) =>
                  n \in DOMAIN log'.files /\ log'.files[n] = log.files[n]

C36_FailedState ==
    probe.phase = "attempt" =>
        \A k \in 2..Len(probe.used) :
            /\ probe.failed[k - 1] => probe.used[k] = probe.used[k - 1]
            /\ ~probe.failed[k - 1] =>
                  probe.used[k] = (probe.used[k - 1] + 1) % (max_session_logfiles + 1)

C36_FailedWriteKeepsIndex == []C36_FailedState /\ [][C36_FailedStep]_vars

\* the write of session.log3 failed twice; the third call wrote it and the
\* fourth went on to session.log4
C36_Witness ==
    /\ probe.phase = "attempt"
    /\ probe.input = LogWith(2)
    /\ probe.used = <<3, 3, 3, 4>>
    /\ probe.failed = <<TRUE, TRUE, FALSE, FALSE>>
    /\ Sidecar(log) = 4

\* C37: a run that ends normally (the single tick of a run without --watch,
\* a check-only run, --version, a usage error) never calls the log rotation:
\* no log file is written and the index file is as it was at the start.
NormalEnds == {"done", "checked", "version", "usage"}

C37_NormalState ==
    (probe.phase = "start" /\ pc \in NormalEnds) =>
        log \in {FreshLog, LogWith(10)}

C37_NormalStep ==
    /\ pc \in NormalEnds => pc' = pc /\ log' = log
    /\ log' # log => pc \in {"raised", "interrupted"} /\ pc' \in {"failed", "exited"}

C37_NormalEndWritesNoLog == []C37_NormalState /\ [][C37_NormalStep]_vars

\* a run without --watch that uploaded a replay and ended with the index
\* file still holding 10
C37_Witness ==
    /\ probe.phase = "start"
    /\ pc = "done"
    /\ session_data.total_replays > 0
    /\ log = LogWith(10)

\* the other normal ends: --version, a usage error, a check-only run
C37_VersionEnd == probe.phase = "start" /\ pc = "version" /\ log = LogWith(10)
C37_UsageEnd ==
    probe.phase = "start" /\ pc = "usage" /\ probe.arguments = "run" /\ log = FreshLog
C37_CheckEnd == probe.phase = "start" /\ pc = "checked" /\ log = FreshLog
\* a run that main() left with an exception did write a log file
C37_FailedEnd == probe.phase = "start" /\ pc = "failed" /\ log # LogWith(10) /\ log # FreshLog

\* C38: for every string and every requested length, lengths below the width
\* of the ellipsis and strings shorter than the ellipsis included, the string
\* truncate_string returns ends with the ellipsis and is not wider than the
\* requested length.
Truncated == pc = "truncate" /\ probe.phase = "out"

EndsWithEllipsis(string) ==
    /\ Len(string) >= Len(Ellipsis)
    /\ SubSeq(string, Len(string) - Len(Ellipsis) + 1, Len(string)) = Ellipsis

C38_EndsAndFits ==
    Truncated =>
        /\ EndsWithEllipsis(probe.result)
        /\ Len(probe.result) <= probe.length

\* what the code does keep: the result ends with the ellipsis, and it fits
\* when the string and the length are both at least as wide as the ellipsis
C38_FitsFromEllipsisWidth ==
    Truncated =>
        /\ EndsWithEllipsis(probe.result)
        /\ (probe.length >= Len(Ellipsis) /\ Len(probe.string) >= Len(Ellipsis)) =>
              Len(probe.result) <= probe.length

\* truncate_string("aabab", 2) is "aaba...", 7 wide
C38_WiderThanRequested ==
    /\ Truncated
    /\ probe.string = <<"a", "a", "b", "a", "b">>
    /\ probe.length = 2
    /\ probe.result = <<"a", "a", "b", "a">> \o Ellipsis

\* truncate_string("ab", 3) is "a...", 4 wide
C38_ShortString ==
    /\ Truncated
    /\ probe.string = <<"a", "b">>
    /\ probe.length = 3
    /\ probe.result = <<"a">> \o Ellipsis

====
